---- MODULE Spec2Model ----
(***************************************************************************)
(* Model of .cursor/build_uml_diagram.py: the class extractor              *)
(* (UMLClassVisitor), the module-function extractor, the package           *)
(* aggregators, the two renderers and main.                                *)
(*                                                                         *)
(* Text is a sequence of one-character strings; a document is the sequence *)
(* of its lines (the argument of "\n".join).  A dict is a sequence of      *)
(* [key, value] records in insertion order, as Python dicts iterate.       *)
(***************************************************************************)
EXTENDS Integers, Sequences, FiniteSets, TLC

VARIABLES
    tree,       \* parse_python_file: what ast.parse is given / returns for the file
    classes,    \* parse_python_file: the mapping it returns
    vpc,        \* parse_python_file / parse_module_functions: "start" | "done"
    file_functions, \* parse_module_functions: the mapping it returns
    listing,    \* what os.walk(root) yields: <<[dirpath, files]>>, root first
    pc,         \* main: the statement it is at
    next_file,  \* the walk in progress: index of the next file of the listing
    packages,   \* main: packages (the class aggregate)
    uml_source, \* main: uml_source
    modules,    \* main: module_funcs (the function aggregate)
    module_funcs_doc,   \* main: module_funcs_doc
    site_files, \* main: site_files
    site_content_doc,   \* main: site_content_doc
    written,    \* the output folder: artifact name -> text written
    exit_code,  \* the process's exit status: {} while it runs, then {status}
    error,      \* the fatal error main has printed, "" when none
    parsed_files,   \* how many files the walks have opened so far
    renders     \* the texts returned by successive renderer calls

vvars == <<tree, classes, vpc, file_functions>>
mvars == <<listing, pc, next_file, packages, uml_source, modules, module_funcs_doc,
           site_files, site_content_doc, written, exit_code, error, parsed_files>>
vars == <<vvars, mvars, renders>>

-----------------------------------------------------------------------------
(* Strings *)

\* Code points of the characters the model uses (str comparison is by code point).
Ord ==
    [c \in {" ", "(", ")", ",", "-", ".", ":", "=", ">", "[", "]", "_", "{", "}"}
        |-> CASE c = " " -> 32 [] c = "(" -> 40 [] c = ")" -> 41 [] c = "," -> 44
              [] c = "-" -> 45 [] c = "." -> 46 [] c = ":" -> 58 [] c = "=" -> 61
              [] c = ">" -> 62 [] c = "[" -> 91 [] c = "]" -> 93 [] c = "_" -> 95
              [] c = "{" -> 123 [] c = "}" -> 125]
    @@ [c \in {"A", "B", "M", "N", "O"}
        |-> CASE c = "A" -> 65 [] c = "B" -> 66 [] c = "M" -> 77 [] c = "N" -> 78
              [] c = "O" -> 79]
    @@ [c \in {"a", "b", "c", "d", "e", "f", "g", "h", "i", "k", "l", "m", "n",
               "o", "p", "r", "s", "t", "u", "w", "x", "y", "z"}
        |-> CASE c = "a" -> 97 [] c = "b" -> 98 [] c = "c" -> 99 [] c = "d" -> 100
              [] c = "e" -> 101 [] c = "f" -> 102 [] c = "g" -> 103 [] c = "h" -> 104
              [] c = "i" -> 105 [] c = "k" -> 107 [] c = "l" -> 108 [] c = "m" -> 109
              [] c = "n" -> 110 [] c = "o" -> 111 [] c = "p" -> 112 [] c = "r" -> 114
              [] c = "s" -> 115 [] c = "t" -> 116 [] c = "u" -> 117 [] c = "w" -> 119
              [] c = "x" -> 120 [] c = "y" -> 121 [] c = "z" -> 122]

startswith(s, prefix) ==
    Len(s) >= Len(prefix) /\ SubSeq(s, 1, Len(prefix)) = prefix

endswith(s, suffix) ==
    Len(s) >= Len(suffix) /\ SubSeq(s, Len(s) - Len(suffix) + 1, Len(s)) = suffix

RECURSIVE StrLess(_, _)
\* s < t for Python str: lexicographic by code point, a proper prefix is smaller.
StrLess(s, t) ==
    IF t = <<>> THEN FALSE
    ELSE IF s = <<>> THEN TRUE
    ELSE IF Ord[Head(s)] # Ord[Head(t)] THEN Ord[Head(s)] < Ord[Head(t)]
    ELSE StrLess(Tail(s), Tail(t))

RECURSIVE InsertSorted(_, _)
\* x placed after every element whose key is <= x.k: one step of a stable sort.
InsertSorted(x, sortedSeq) ==
    IF sortedSeq = <<>> THEN <<x>>
    ELSE IF StrLess(x.k, Head(sortedSeq).k)
         THEN <<x>> \o sortedSeq
         ELSE <<Head(sortedSeq)>> \o InsertSorted(x, Tail(sortedSeq))

RECURSIVE StableSort(_)
StableSort(pairs) ==
    IF pairs = <<>> THEN <<>>
    ELSE LET n == Len(pairs)
         IN  InsertSorted(pairs[n], StableSort(SubSeq(pairs, 1, n - 1)))

\* sorted(seq, key=...) on a sequence of [k |-> key, v |-> element]: stable,
\* ascending by key.
sortedByKey(pairs) ==
    LET out == StableSort(pairs) IN [i \in 1..Len(out) |-> out[i].v]

RECURSIVE SetToSeq(_)
SetToSeq(S) ==
    IF S = {} THEN <<>>
    ELSE LET x == CHOOSE y \in S : TRUE IN <<x>> \o SetToSeq(S \ {x})

\* sorted(list(a_set)) of a set of str.
sortedSet(S) ==
    LET seq == SetToSeq(S)
    IN  sortedByKey([i \in 1..Len(seq) |-> [k |-> seq[i], v |-> seq[i]]])

Range(seq) == {seq[i] : i \in 1..Len(seq)}

-----------------------------------------------------------------------------
(* dict: insertion-ordered sequence of [key, value] *)

EmptyDict == <<>>

Keys(d) == [i \in 1..Len(d) |-> d[i].key]

HasKey(d, k) == \E i \in 1..Len(d) : d[i].key = k

DictGet(d, k) == d[CHOOSE i \in 1..Len(d) : d[i].key = k].value

\* d[k] = v: an existing key keeps its position, a new key goes last.
DictSet(d, k, v) ==
    IF HasKey(d, k)
    THEN [i \in 1..Len(d) |-> IF d[i].key = k THEN [key |-> k, value |-> v] ELSE d[i]]
    ELSE Append(d, [key |-> k, value |-> v])

-----------------------------------------------------------------------------
(* Syntax trees (what ast.parse returns), as records tagged by node type.   *)
(* Only statement-list children are kept for traversal: a class definition *)
(* is a statement, so no expression child can hold one.                     *)

None == [type |-> "None"]

Name(id) == [type |-> "Name", id |-> id]
Attribute(value, attr) == [type |-> "Attribute", value |-> value, attr |-> attr]
\* An expression too deep for ast.unparse, which raises RecursionError on it.
Deep == [type |-> "Deep"]

Assign(targets) == [type |-> "Assign", targets |-> targets]
AnnAssign(target) == [type |-> "AnnAssign", target |-> target]
If(body, orelse) == [type |-> "If", body |-> body, orelse |-> orelse]
arg(name, annotation) == [arg |-> name, annotation |-> annotation]
arguments(posonlyargs, args, vararg, kwonlyargs, kwarg) ==
    [posonlyargs |-> posonlyargs, args |-> args, vararg |-> vararg,
     kwonlyargs |-> kwonlyargs, kwarg |-> kwarg]
FunctionDef(name, args, returns, decorator_list, body) ==
    [type |-> "FunctionDef", name |-> name, args |-> args, returns |-> returns,
     decorator_list |-> decorator_list, body |-> body]
\* async def: a node type of its own, with the fields of FunctionDef.
AsyncFunctionDef(name, args, returns, decorator_list, body) ==
    [type |-> "AsyncFunctionDef", name |-> name, args |-> args, returns |-> returns,
     decorator_list |-> decorator_list, body |-> body]
ClassDef(name, body) == [type |-> "ClassDef", name |-> name, body |-> body]
Module(body) == [type |-> "Module", body |-> body]
\* The file cannot be read or parsed: open / ast.parse raises.
ParseFails == [type |-> "ParseFails"]

\* ast.iter_child_nodes restricted to statements, in field order.
Children(node) ==
    CASE node.type \in {"Module", "ClassDef", "FunctionDef", "AsyncFunctionDef"} -> node.body
      [] node.type = "If" -> node.body \o node.orelse
      [] OTHER -> <<>>

RECURSIVE walk(_)
\* ast.walk(node): node and all its descendants (as a set: the caller only
\* adds what it finds to sets).
walk(node) ==
    {node} \cup UNION {walk(Children(node)[i]) : i \in 1..Len(Children(node))}

\* ast.unparse(expr); raises on Deep.
unparse_raises(expr) == expr.type = "Deep"
RECURSIVE unparse(_)
unparse(expr) ==
    CASE expr.type = "Name" -> expr.id
      [] expr.type = "Attribute" -> unparse(expr.value) \o <<".">> \o expr.attr

-----------------------------------------------------------------------------
(* UMLClassVisitor *)

s_init == <<"_", "_", "i", "n", "i", "t", "_", "_">>
s_self == <<"s", "e", "l", "f">>

\* lines 60-66 and 73-79: the text of an optional annotation, "" when it is
\* absent or cannot be rendered.
annotation_str(annotation) ==
    IF annotation # None
    THEN IF unparse_raises(annotation) THEN <<>> ELSE unparse(annotation)
    ELSE <<>>

\* lines 67-70
format_param(a) ==
    IF annotation_str(a.annotation) # <<>>
    THEN a.arg \o <<":", " ">> \o annotation_str(a.annotation)
    ELSE a.arg

\* lines 56-70: the parameters of stmt.args.args that are not named "self".
method_param_list(stmt) ==
    LET kept == SelectSeq(stmt.args.args, LAMBDA a : a.arg # s_self)
    IN  [i \in 1..Len(kept) |-> format_param(kept[i])]

\* lines 81-84
method_info(stmt) ==
    [params |-> method_param_list(stmt), return |-> annotation_str(stmt.returns)]

\* is_magic with the suffix test mistyped as three underscores.
is_magic_typo(method_name) ==
    startswith(method_name, <<"_", "_">>) /\ endswith(method_name, <<"_", "_", "_">>)

\* line 52: the test that makes the method loop skip a statement.
is_magic(method_name) ==
    startswith(method_name, <<"_", "_">>) /\ endswith(method_name, <<"_", "_">>)

\* lines 30-37 and 38-44: the bare names one class-body statement assigns.
assigned_names(stmt) ==
    CASE stmt.type = "Assign" ->
            {stmt.targets[i].id :
                i \in {j \in 1..Len(stmt.targets) : stmt.targets[j].type = "Name"}}
      [] stmt.type = "AnnAssign" ->
            IF stmt.target.type = "Name" THEN {stmt.target.id} ELSE {}
      [] OTHER -> {}

\* lines 93-98: the attributes assigned on self anywhere under stmt.
self_assigned(stmt) ==
    UNION {
        {n.targets[i].attr :
            i \in {j \in 1..Len(n.targets) :
                    /\ n.targets[j].type = "Attribute"
                    /\ n.targets[j].value.type = "Name"
                    /\ n.targets[j].value.id = s_self}}
        : n \in {m \in walk(stmt) : m.type = "Assign"}}

\* The locals of visit_ClassDef before any statement is processed (lines 23-26).
EmptyRecord ==
    [attributes |-> {}, private_attributes |-> {},
     methods |-> EmptyDict, private_methods |-> EmptyDict]

\* lines 34-37, 41-44, 99-102: names added to the two attribute sets.
add_attributes(rec, names) ==
    [rec EXCEPT
        !.private_attributes = @ \cup {a \in names : startswith(a, <<"_">>)},
        !.attributes = @ \cup {a \in names : ~startswith(a, <<"_">>)}]

RECURSIVE class_level_loop(_, _)
\* lines 29-44: the first loop over node.body.
class_level_loop(body, rec) ==
    IF body = <<>> THEN rec
    ELSE class_level_loop(Tail(body), add_attributes(rec, assigned_names(Head(body))))

\* lines 48-102: one iteration of the second loop.
method_step(stmt, rec) ==
    IF stmt.type # "FunctionDef" THEN rec
    ELSE IF is_magic(stmt.name) THEN rec
    ELSE LET recorded ==
                IF startswith(stmt.name, <<"_">>)
                THEN [rec EXCEPT !.private_methods =
                                    DictSet(@, stmt.name, method_info(stmt))]
                ELSE [rec EXCEPT !.methods = DictSet(@, stmt.name, method_info(stmt))]
         IN  IF stmt.name = s_init
             THEN add_attributes(recorded, self_assigned(stmt))
             ELSE recorded

RECURSIVE method_loop(_, _)
\* lines 47-102: the second loop over node.body.
method_loop(body, rec) ==
    IF body = <<>> THEN rec
    ELSE method_loop(Tail(body), method_step(Head(body), rec))

\* lines 22-109: the record visit_ClassDef stores for node.
class_record(node) ==
    LET rec == method_loop(node.body, class_level_loop(node.body, EmptyRecord))
    IN  [attributes |-> sortedSet(rec.attributes),
         private_attributes |-> sortedSet(rec.private_attributes),
         methods |-> rec.methods,
         private_methods |-> rec.private_methods]

RECURSIVE visit(_, _)
RECURSIVE visit_all(_, _)
\* NodeVisitor.generic_visit: visit every child in order.
visit_all(nodes, cls) ==
    IF nodes = <<>> THEN cls
    ELSE visit_all(Tail(nodes), visit(Head(nodes), cls))

\* NodeVisitor.visit: visit_ClassDef for a class definition (store the record
\* under the class name, then generic_visit), generic_visit for anything else.
visit(node, cls) ==
    IF node.type = "ClassDef"
    THEN visit_all(Children(node), DictSet(cls, node.name, class_record(node)))
    ELSE visit_all(Children(node), cls)

\* lines 112-123
parse_python_file(file_tree) ==
    IF file_tree = ParseFails THEN EmptyDict
    ELSE visit(file_tree, EmptyDict)

-----------------------------------------------------------------------------
(* Module-level functions: parse_module_functions *)

\* lines 237-240
function_param(a) ==
    IF annotation_str(a.annotation) # <<>>
    THEN a.arg \o <<":", " ">> \o annotation_str(a.annotation)
    ELSE a.arg

\* lines 252-255: the text of one decorator, "" when it cannot be rendered.
decorator_str(decorator) ==
    IF unparse_raises(decorator) THEN <<>> ELSE unparse(decorator)

\* lines 249-257
decorators_of(node) ==
    LET texts == [i \in 1..Len(node.decorator_list) |-> decorator_str(node.decorator_list[i])]
    IN  SelectSeq(texts, LAMBDA t : t # <<>>)

\* lines 227-262: the record stored for one top-level function definition.
function_record(node) ==
    [params |-> [i \in 1..Len(node.args.args) |-> function_param(node.args.args[i])],
     return |-> annotation_str(node.returns),
     decorators |-> decorators_of(node)]

RECURSIVE functions_loop(_, _)
\* lines 225-262: the loop over tree.body.
functions_loop(body, functions) ==
    IF body = <<>> THEN functions
    ELSE functions_loop(Tail(body),
            IF Head(body).type = "FunctionDef"
            THEN DictSet(functions, Head(body).name, function_record(Head(body)))
            ELSE functions)

\* lines 211-263
parse_module_functions(file_tree) ==
    IF file_tree = ParseFails THEN EmptyDict
    ELSE functions_loop(file_tree.body, EmptyDict)

-----------------------------------------------------------------------------
(* Paths.  A directory is the sequence of its path segments below the scan  *)
(* root; a file is [name, src], src naming what reading it gives.           *)

sep == "/"

RECURSIVE join(_, _)
\* separator.join(parts)
join(parts, separator) ==
    IF parts = <<>> THEN <<>>
    ELSE IF Len(parts) = 1 THEN parts[1]
    ELSE parts[1] \o separator \o join(Tail(parts), separator)

\* os.path.relpath(current_dir, root_dir) for a directory at or below root_dir.
relpath(segments) ==
    IF segments = <<>> THEN <<".">> ELSE join(segments, <<sep>>)

\* str.replace(old, new) for one-character old and new.
replace(text, old, new) ==
    [i \in 1..Len(text) |-> IF text[i] = old THEN new ELSE text[i]]

\* lines 125-133
compute_package_name(current_dir) ==
    LET rel_path == relpath(current_dir)
    IN  IF rel_path = <<".">> THEN <<"r", "o", "o", "t">> ELSE replace(rel_path, sep, ".")

\* The index of the last "." of a file name, 0 when it has none.
rfind_dot(name) ==
    IF \E i \in 1..Len(name) : name[i] = "."
    THEN CHOOSE i \in 1..Len(name) :
            name[i] = "." /\ \A j \in (i + 1)..Len(name) : name[j] # "."
    ELSE 0

\* os.path.splitext(filename)[0]: the name up to its last ".", unless that dot
\* only has dots before it (a leading dot starts no extension).
splitext_root(filename) ==
    LET dot == rfind_dot(filename)
    IN  IF dot > 0 /\ \E i \in 1..(dot - 1) : filename[i] # "."
        THEN SubSeq(filename, 1, dot - 1)
        ELSE filename

dot_py == <<".", "p", "y">>

-----------------------------------------------------------------------------
(* The package aggregators *)

RECURSIVE append_classes(_, _, _)
\* lines 153-158: one entry per item of file_classes, appended in dict order.
append_classes(class_entries, file_classes, module_name) ==
    IF file_classes = <<>> THEN class_entries
    ELSE append_classes(
            Append(class_entries,
                   [class_name |-> Head(file_classes).key,
                    data |-> Head(file_classes).value,
                    module |-> module_name]),
            Tail(file_classes), module_name)

\* lines 150-151 and 278-279: packages[package_name] = [] unless present.
setdefault_list(d, package_name) ==
    IF HasKey(d, package_name) THEN d ELSE DictSet(d, package_name, <<>>)

\* add_file_classes without the `if file_classes:` test of line 149.
add_file_classes_unguarded(packages_in, dirpath, filename, file_tree) ==
    LET package_name == compute_package_name(dirpath)
        file_classes == parse_python_file(file_tree)
        with_key     == setdefault_list(packages_in, package_name)
    IN  IF endswith(filename, dot_py)
        THEN DictSet(with_key, package_name,
                     append_classes(DictGet(with_key, package_name), file_classes,
                                    splitext_root(filename)))
        ELSE packages_in

\* lines 144-158: what one file of one directory adds to packages.
\* file_tree is what open + ast.parse give for the file.
add_file_classes(packages_in, dirpath, filename, file_tree) ==
    LET package_name == compute_package_name(dirpath)
        file_classes == parse_python_file(file_tree)
        with_key     == setdefault_list(packages_in, package_name)
    IN  IF endswith(filename, dot_py) /\ file_classes # EmptyDict
        THEN DictSet(with_key, package_name,
                     append_classes(DictGet(with_key, package_name), file_classes,
                                    splitext_root(filename)))
        ELSE packages_in

\* lines 272-284: what one file of one directory adds to modules.
add_file_functions(modules_in, dirpath, filename, file_tree) ==
    LET package_name == compute_package_name(dirpath)
        funcs        == parse_module_functions(file_tree)
        with_key     == setdefault_list(modules_in, package_name)
    IN  IF endswith(filename, dot_py) /\ funcs # EmptyDict
        THEN DictSet(with_key, package_name,
                     Append(DictGet(with_key, package_name),
                            [module |-> splitext_root(filename), functions |-> funcs]))
        ELSE modules_in

-----------------------------------------------------------------------------
(* The renderers.  A document is the sequence of lines "\n".join is given.   *)

repeat(c, n) == [i \in 1..n |-> c]

RECURSIVE concat(_)
\* All the sequences of a sequence of sequences, one after the other.
concat(seqs) ==
    IF seqs = <<>> THEN <<>> ELSE Head(seqs) \o concat(Tail(seqs))

\* Counter(entry["class_name"] for entry in class_entries)[name]
class_name_count(class_entries, name) ==
    Cardinality({i \in 1..Len(class_entries) : class_entries[i].class_name = name})

\* lines 178-183
display_name(class_entries, entry) ==
    IF class_name_count(class_entries, entry.class_name) > 1
    THEN entry.class_name \o <<" ", "(">> \o entry.module \o <<")">>
    ELSE entry.class_name

\* lines 191-195 and 197-201: one method line behind its visibility glyph.
method_line(glyph, method, info) ==
    LET param_str == join(info.params, <<",", " ">>)
        head == <<" ", " ", " ", " ", glyph, " ">> \o method \o <<"(">> \o param_str \o <<")">>
    IN  IF info.return # <<>>
        THEN head \o <<" ", ":", " ">> \o info.return
        ELSE head

\* lines 184-202: the lines of one class block.
class_block(class_entries, entry) ==
    LET data == entry.data IN
    <<<<" ", " ", "c", "l", "a", "s", "s", " ">> \o display_name(class_entries, entry) \o <<" ", "{">>>>
    \o [i \in 1..Len(data.attributes) |-> <<" ", " ", " ", " ", "+", " ">> \o data.attributes[i]]
    \o [i \in 1..Len(data.private_attributes) |-> <<" ", " ", " ", " ", "-", " ">> \o data.private_attributes[i]]
    \o [i \in 1..Len(data.methods) |->
            method_line("+", data.methods[i].key, data.methods[i].value)]
    \o [i \in 1..Len(data.private_methods) |->
            method_line("-", data.private_methods[i].key, data.private_methods[i].value)]
    \o <<<<" ", " ", "}">>>>

\* lines 175-203: the lines of one package block.
package_block(pkg, class_entries) ==
    <<<<"p", "a", "c", "k", "a", "g", "e", " ">> \o pkg \o <<" ", "{">>>>
    \o concat([i \in 1..Len(class_entries) |-> class_block(class_entries, class_entries[i])])
    \o <<<<"}">>>>

\* lines 167-173
uml_header ==
    << <<"@", "s", "t", "a", "r", "t", "u", "m", "l">>,
       <<"s", "k", "i", "n", "p", "a", "r", "a", "m", " ", "p", "a", "g", "e", "M", "a", "r", "g", "i", "n", " ", "5", "0">>,
       <<"s", "k", "i", "n", "p", "a", "r", "a", "m", " ", "p", "a", "g", "e", "W", "i", "d", "t", "h", " ", "3", "0", "0", "0">>,
       <<"l", "e", "f", "t", " ", "t", "o", " ", "r", "i", "g", "h", "t", " ", "d", "i", "r", "e", "c", "t", "i", "o", "n">>,
       <<"d", "i", "r", "e", "c", "t", "i", "o", "n", " ", "L", "R">> >>

\* generate_plantuml with uml_lines kept between calls (a module-level list,
\* or a mutable default argument): each call returns the earlier calls' lines
\* too.
generate_plantuml_shared_lines(packages_in) ==
    concat([i \in 1..Len(renders) |->
              IF renders[i].fn = "generate_plantuml" THEN renders[i].text ELSE <<>>])
    \o uml_header
    \o concat([i \in 1..Len(packages_in) |->
                  package_block(packages_in[i].key, packages_in[i].value)])
    \o <<<<"@", "e", "n", "d", "u", "m", "l">>>>

\* lines 161-205
generate_plantuml(packages_in) ==
    uml_header
    \o concat([i \in 1..Len(packages_in) |->
                  package_block(packages_in[i].key, packages_in[i].value)])
    \o <<<<"@", "e", "n", "d", "u", "m", "l">>>>

\* sorted(d.items()) for a dict with str keys: the items by ascending key.
sorted_items(d) ==
    sortedByKey([i \in 1..Len(d) |-> [k |-> d[i].key, v |-> d[i]]])

\* lines 298-305: the line of one function.
function_line(func_name, info) ==
    LET param_str == join(info.params, <<",", " ">>)
        signature == func_name \o <<"(">> \o param_str \o <<")">>
        with_return ==
            IF info.return # <<>>
            THEN signature \o <<" ", "-", ">", " ">> \o info.return
            ELSE signature
        with_decorators ==
            IF info.decorators # <<>>
            THEN with_return \o <<" ", "[", "D", "e", "c", "o", "r", "a", "t", "o", "r", "s", ":", " ">> \o join(info.decorators, <<",", " ">>)
                 \o <<"]">>
            ELSE with_return
    IN  <<" ", " ", " ", " ", "-", " ">> \o with_decorators

\* lines 296-306: the lines of one module entry.
module_block(entry) ==
    LET items == sorted_items(entry.functions) IN
    <<<<" ", " ", "M", "o", "d", "u", "l", "e", ":", " ">> \o entry.module>>
    \o [i \in 1..Len(items) |-> function_line(items[i].key, items[i].value)]
    \o << <<>> >>

\* lines 294-307: the lines of one package.
package_doc(pkg, module_entries) ==
    LET entries == sortedByKey([i \in 1..Len(module_entries) |->
                        [k |-> module_entries[i].module, v |-> module_entries[i]]])
    IN  <<<<"P", "a", "c", "k", "a", "g", "e", ":", " ">> \o pkg>>
        \o concat([i \in 1..Len(entries) |-> module_block(entries[i])])
        \o << <<>> >>

\* lines 287-308
generate_module_functions_doc(modules_in) ==
    LET items == sorted_items(modules_in) IN
    << <<"M", "o", "d", "u", "l", "e", "-", "L", "e", "v", "e", "l", " ", "F", "u", "n",
      "c", "t", "i", "o", "n", "s", " ", "D", "o", "c", "u", "m", "e", "n", "t",
      "a", "t", "i", "o", "n">>, repeat("=", 40), <<>> >>
    \o concat([i \in 1..Len(items) |-> package_doc(items[i].key, items[i].value)])

\* lines 322-333: what one file adds to site_files; file_text is what reading
\* it gives (the text, or the "Error reading file" text).
add_site_file(site_files_in, dirpath, filename, file_text) ==
    IF \/ endswith(filename, <<".", "h", "t", "m", "l">>) \/ endswith(filename, <<".", "j", "s">>)
       \/ endswith(filename, <<".", "c", "s", "s">>)
    THEN Append(site_files_in,
                [path |-> join(Append(dirpath, filename), <<sep>>), content |-> file_text])
    ELSE site_files_in

\* lines 343-347: the lines of one site file.
site_file_block(file_info) ==
    LET header == <<"F", "i", "l", "e", ":", " ">> \o file_info.path IN
    << header, repeat("-", Len(header)), file_info.content,
       <<"\n">> \o repeat("=", 40) \o <<"\n">> >>

\* lines 336-348
generate_site_content_doc(site_files_in) ==
    LET files == sortedByKey([i \in 1..Len(site_files_in) |->
                      [k |-> site_files_in[i].path, v |-> site_files_in[i]]])
    IN  << <<"S", "i", "t", "e", " ", "C", "o", "n", "t", "e", "n", "t", " ", "D", "o", "c",
      "u", "m", "e", "n", "t", "a", "t", "i", "o", "n">>, repeat("=", 40), <<>> >>
        \o concat([i \in 1..Len(files) |-> site_file_block(files[i])])

-----------------------------------------------------------------------------
(* The files the class extractor is run on *)

MaxBody == 2

a_self == arg(s_self, None)
e_int == Name(<<"i", "n", "t">>)
e_str == Name(<<"s", "t", "r">>)
self_attr(attr) == Attribute(Name(s_self), attr)
no_more == arguments(<<>>, <<a_self>>, None, <<>>, None)

\* x = ...
m_x == Assign(<<Name(<<"x">>)>>)
\* _y: int = ...
m_y == AnnAssign(Name(<<"_", "y">>))
\* a = o.k = ...
m_a == Assign(<<Name(<<"a">>), Attribute(Name(<<"o">>), <<"k">>)>>)
\* def __init__(self, n: int): self.count = ...; if ...: self._cache = ...
m_init ==
    FunctionDef(s_init, arguments(<<>>, <<a_self, arg(<<"n">>, e_int)>>, None, <<>>, None),
                None, <<>>,
                <<Assign(<<self_attr(<<"c", "o", "u", "n", "t">>)>>),
                  If(<<Assign(<<self_attr(<<"_", "c", "a", "c", "h", "e">>)>>)>>, <<>>)>>)
\* def __repr__(self) -> str: self.tmp = ...
m_repr == FunctionDef(<<"_", "_", "r", "e", "p", "r", "_", "_">>, no_more, e_str, <<>>, <<Assign(<<self_attr(<<"t", "m", "p">>)>>)>>)
\* def run(self, a, *rest, key: int, **kw): self.late = ...
m_run ==
    FunctionDef(<<"r", "u", "n">>,
                arguments(<<>>, <<a_self, arg(<<"a">>, None)>>, arg(<<"r", "e", "s", "t">>, None),
                          <<arg(<<"k", "e", "y">>, e_int)>>, arg(<<"k", "w">>, None)),
                None, <<>>, <<Assign(<<self_attr(<<"l", "a", "t", "e">>)>>)>>)
\* def _helper(self, b: <unrenderable>, c: int) -> str: pass
m_helper ==
    FunctionDef(<<"_", "h", "e", "l", "p", "e", "r">>,
                arguments(<<>>, <<a_self, arg(<<"b">>, Deep), arg(<<"c">>, e_int)>>, None, <<>>, None),
                e_str, <<>>, <<>>)
\* class Meta: x = ...
m_meta == ClassDef(<<"M", "e", "t", "a">>, <<m_x>>)
\* def make(self): class Meta: _y: int = ...
m_make == FunctionDef(<<"m", "a", "k", "e">>, no_more, None, <<>>, <<ClassDef(<<"M", "e", "t", "a">>, <<m_y>>)>>)

Members == {m_x, m_y, m_a, m_init, m_repr, m_run, m_helper, m_meta, m_make}

Bodies == UNION {[1..n -> Members] : n \in 0..MaxBody}

\* What follows the first class in the module, if anything.
Trailers ==
    { <<>>,
      <<ClassDef(<<"M", "e", "t", "a">>, <<>>)>>,
      <<ClassDef(<<"B">>, <<m_init, m_repr>>)>>,
      <<If(<<ClassDef(<<"A">>, <<m_x>>)>>, <<ClassDef(<<"A">>, <<m_y>>)>>)>>,
      <<FunctionDef(<<"m", "a", "i", "n">>, arguments(<<>>, <<>>, None, <<>>, None), None, <<>>, <<>>)>> }

Trees ==
    {Module(<<ClassDef(<<"A">>, b)>> \o t) : b \in Bodies, t \in Trailers}
    \cup {Module(t) : t \in Trailers}
    \cup {ParseFails}

-----------------------------------------------------------------------------
(* parse_python_file as a run: one file in, one mapping out *)

VisitorInit ==
    /\ tree \in Trees
    /\ classes = EmptyDict
    /\ vpc = "start"
    /\ file_functions = EmptyDict
    /\ listing = <<>> /\ pc = "idle" /\ next_file = 1
    /\ packages = EmptyDict /\ uml_source = <<>>
    /\ modules = EmptyDict /\ module_funcs_doc = <<>>
    /\ site_files = <<>> /\ site_content_doc = <<>>
    /\ written = EmptyDict /\ exit_code = {} /\ error = "" /\ parsed_files = 0
    /\ renders = <<>>

ParsePythonFile ==
    /\ vpc = "start"
    /\ classes' = parse_python_file(tree)
    /\ vpc' = "done"
    /\ UNCHANGED <<tree, file_functions, mvars, renders>>

VisitorNext == ParsePythonFile

SpecVisitor == VisitorInit /\ [][VisitorNext]_vars

-----------------------------------------------------------------------------
(* Properties of the class extractor *)

RECURSIVE ClassDefSeq(_)
RECURSIVE ClassDefSeqOfAll(_)
\* The class definitions under node, in source order (outer before inner).
ClassDefSeq(node) ==
    (IF node.type = "ClassDef" THEN <<node>> ELSE <<>>) \o ClassDefSeqOfAll(Children(node))
ClassDefSeqOfAll(nodes) ==
    IF nodes = <<>> THEN <<>>
    ELSE ClassDefSeq(Head(nodes)) \o ClassDefSeqOfAll(Tail(nodes))

Parsed == vpc = "done" /\ tree # ParseFails

\* The class definition a stored record was computed from: the last one of
\* that name in source order.
DefinitionOf(class_name) ==
    LET named == SelectSeq(ClassDefSeq(tree), LAMBDA c : c.name = class_name)
    IN  named[Len(named)]

DirectMethods(c) == {c.body[i] : i \in {j \in 1..Len(c.body) : c.body[j].type = "FunctionDef"}}

\* The last definition of a method name in a class body: the one a dict keeps.
MethodNamed(c, method_name) ==
    c.body[CHOOSE i \in 1..Len(c.body) :
              /\ c.body[i].type = "FunctionDef" /\ c.body[i].name = method_name
              /\ \A j \in (i + 1)..Len(c.body) :
                    ~(c.body[j].type = "FunctionDef" /\ c.body[j].name = method_name)]

IsDunder(method_name) ==
    /\ Len(method_name) >= 2
    /\ method_name[1] = "_" /\ method_name[2] = "_"
    /\ method_name[Len(method_name)] = "_" /\ method_name[Len(method_name) - 1] = "_"

ClassLevelNames(c) == UNION {assigned_names(c.body[i]) : i \in 1..Len(c.body)}

InitAssigned(c) == UNION {self_assigned(m) : m \in {f \in DirectMethods(c) : f.name = s_init}}

OtherDunderAssigned(c) ==
    UNION {self_assigned(m) :
            m \in {f \in DirectMethods(c) : IsDunder(f.name) /\ f.name # s_init}}

MethodKeys(rec) == Range(Keys(rec.methods)) \cup Range(Keys(rec.private_methods))

\* C1: every class whose body directly holds __init__ has a record that lists
\* __init__ in the method map its own name selects (private_methods, since the
\* name starts with "_"), and the attributes assigned on self inside __init__
\* are in the record's attribute lists.
C1_InitListedAndScanned ==
    Parsed =>
        \A i \in 1..Len(ClassDefSeq(tree)) :
            LET c == ClassDefSeq(tree)[i] IN
            (\E m \in DirectMethods(c) : m.name = s_init) =>
                /\ HasKey(classes, c.name)
                /\ c = DefinitionOf(c.name) =>
                      LET rec == DictGet(classes, c.name) IN
                      /\ IF startswith(s_init, <<"_">>)
                         THEN HasKey(rec.private_methods, s_init)
                         ELSE HasKey(rec.methods, s_init)
                      /\ InitAssigned(c) \subseteq
                            Range(rec.attributes) \cup Range(rec.private_attributes)

\* C2: every name assigned at class-body level and every attribute assigned on
\* self inside __init__ is in exactly one of the two attribute lists: in
\* private_attributes iff it starts with "_", otherwise in attributes.
C2_AttributesPartitioned ==
    Parsed =>
        \A i \in 1..Len(classes) :
            LET c   == DefinitionOf(classes[i].key)
                rec == classes[i].value
            IN  /\ Range(rec.attributes) \cap Range(rec.private_attributes) = {}
                /\ \A a \in ClassLevelNames(c) \cup InitAssigned(c) :
                      IF startswith(a, <<"_">>)
                      THEN a \in Range(rec.private_attributes)
                      ELSE a \in Range(rec.attributes)

\* C3: a method whose name starts and ends with "__" and is not __init__ is
\* in neither method map, and a name that only such a method assigns on self
\* is in neither attribute list.
C3_DunderMethodsSkipped ==
    Parsed =>
        \A i \in 1..Len(classes) :
            LET c   == DefinitionOf(classes[i].key)
                rec == classes[i].value
            IN  /\ \A k \in MethodKeys(rec) : IsDunder(k) => k = s_init
                /\ (Range(rec.attributes) \cup Range(rec.private_attributes))
                      \cap (OtherDunderAssigned(c) \ (ClassLevelNames(c) \cup InitAssigned(c)))
                   = {}

\* C3 witness: a parsed class that defines __repr__ with an assignment on self
\* and also a recorded method.
C3_Witness ==
    /\ Parsed
    /\ \E i \in 1..Len(classes) :
          /\ OtherDunderAssigned(DefinitionOf(classes[i].key)) # {}
          /\ MethodKeys(classes[i].value) # {}

\* C9: the extractor returns one record per class definition of the file, at
\* any depth, and an empty mapping exactly when the file defines no class.
C9_OneRecordPerClassDef ==
    Parsed =>
        /\ Len(classes) = Len(ClassDefSeq(tree))
        /\ (classes = EmptyDict) <=> (ClassDefSeq(tree) = <<>>)

\* The parameters a method declares, in declaration order.
DeclaredParams(f) ==
    f.args.posonlyargs \o f.args.args
    \o (IF f.args.vararg = None THEN <<>> ELSE <<f.args.vararg>>)
    \o f.args.kwonlyargs
    \o (IF f.args.kwarg = None THEN <<>> ELSE <<f.args.kwarg>>)

DeclaredText(a) ==
    IF a.annotation = None \/ unparse_raises(a.annotation)
    THEN a.arg
    ELSE a.arg \o <<":", " ">> \o unparse(a.annotation)

\* C10: the parameters recorded for a method are its declared parameters in
\* order without the receiver (the first one), each with its type text if any.
C10_ParamsAreDeclaredMinusReceiver ==
    Parsed =>
        \A i \in 1..Len(classes) :
            LET c   == DefinitionOf(classes[i].key)
                rec == classes[i].value
                all == rec.methods \o rec.private_methods
            IN  \A j \in 1..Len(all) :
                    LET declared == DeclaredParams(MethodNamed(c, all[j].key))
                    IN  all[j].value.params =
                            [k \in 1..(Len(declared) - 1) |-> DeclaredText(declared[k + 1])]

-----------------------------------------------------------------------------
(* The directory trees main is run on *)

MaxFiles == 2

\* exit_code while the process runs; {status} once it has ended.
Running == {}

\* What reading and parsing a file gives, by the name of its content.
\* node:     class Node: x = ...      / @cached def fetch(url: str) -> bytes
\* node2:    class Node: _y: int = ...; class Other: pass / def aa()
\* funcs_f:  def f(n: int)
\* funcs_g:  @<unrenderable> def g(); if ...: def h()
\* bad:      a syntax error
\* html:     a site asset, never parsed
no_args == arguments(<<>>, <<>>, None, <<>>, None)
Source(src) ==
    CASE src = "node" ->
            Module(<<ClassDef(<<"N", "o", "d", "e">>, <<m_x>>),
                     FunctionDef(<<"f", "e", "t", "c", "h">>,
                                 arguments(<<>>, <<arg(<<"u", "r", "l">>, e_str)>>, None, <<>>, None),
                                 Name(<<"b", "y", "t", "e", "s">>), <<Name(<<"c", "a", "c", "h", "e", "d">>)>>, <<>>)>>)
      [] src = "node2" ->
            Module(<<ClassDef(<<"N", "o", "d", "e">>, <<m_y>>), ClassDef(<<"O", "t", "h", "e", "r">>, <<>>),
                     FunctionDef(<<"a", "a">>, no_args, None, <<>>, <<>>)>>)
      [] src = "funcs_f" ->
            Module(<<FunctionDef(<<"f">>, arguments(<<>>, <<arg(<<"n">>, e_int)>>, None, <<>>, None),
                                 None, <<>>, <<>>)>>)
      [] src = "funcs_g" ->
            Module(<<FunctionDef(<<"g">>, no_args, None, <<Deep>>, <<>>),
                     If(<<FunctionDef(<<"h">>, no_args, None, <<>>, <<>>)>>, <<>>)>>)
      [] src = "bad" -> ParseFails
      [] src = "html" -> ParseFails

\* The text read from a site asset.
SourceText(src) == <<"h", "i">>

file(name, src) == [name |-> name, src |-> src]

FilePool ==
    { file(<<"m", ".", "p", "y">>, "node"), file(<<"n", ".", "p", "y">>, "node2"), file(<<".", "p", "y">>, "funcs_f"),
      file(<<".", "p", "y", ".", "p", "y">>, "funcs_g"), file(<<"e", ".", "p", "y">>, "bad"), file(<<"s", ".", "h", "t", "m", "l">>, "html") }

\* The files of one directory, in the order os.walk lists them: any order,
\* no name twice.
FileLists ==
    {fs \in UNION {[1..n -> FilePool] : n \in 0..MaxFiles} :
        \A i, j \in 1..Len(fs) : i # j => fs[i].name # fs[j].name}

SubFileLists ==
    { <<file(<<"m", ".", "p", "y">>, "node")>>, <<file(<<"n", ".", "p", "y">>, "node2")>>, <<file(<<"e", ".", "p", "y">>, "bad")>> }

\* The directories below the root that hold files, in walk order.
SubdirLists ==
    { <<>>, << <<<<"r", "o", "o", "t">>>> >>, << <<<<"a", ".", "b">>>> >>, << <<<<"a">>, <<"b">>>> >>,
      << <<<<"a", ".", "b">>>>, <<<<"a">>, <<"b">>>> >>, << <<<<"a">>, <<"b">>>>, <<<<"a", ".", "b">>>> >> }

Listings ==
    UNION {
        { <<[dirpath |-> <<>>, files |-> fs]>>
          \o [i \in 1..Len(subdirs) |-> [dirpath |-> subdirs[i], files |-> sub[i]]]
          : fs \in FileLists, sub \in [1..Len(subdirs) -> SubFileLists] }
        : subdirs \in SubdirLists }

\* for dirpath ... for filename ...: the files in the order the walks meet them.
walk_files(dirs) ==
    concat([i \in 1..Len(dirs) |->
              [j \in 1..Len(dirs[i].files) |->
                  [dirpath |-> dirs[i].dirpath, name |-> dirs[i].files[j].name,
                   src |-> dirs[i].files[j].src]]])

RECURSIVE parse_directory_from(_, _)
\* lines 143-158 on a list of files, starting from packages_in.
parse_directory_from(files, packages_in) ==
    IF files = <<>> THEN packages_in
    ELSE parse_directory_from(Tail(files),
            add_file_classes(packages_in, Head(files).dirpath, Head(files).name,
                             Source(Head(files).src)))

\* lines 135-159
parse_directory(dirs) == parse_directory_from(walk_files(dirs), EmptyDict)

RECURSIVE parse_functions_from(_, _)
parse_functions_from(files, modules_in) ==
    IF files = <<>> THEN modules_in
    ELSE parse_functions_from(Tail(files),
            add_file_functions(modules_in, Head(files).dirpath, Head(files).name,
                               Source(Head(files).src)))

\* lines 265-285
parse_directory_module_functions(dirs) == parse_functions_from(walk_files(dirs), EmptyDict)

RECURSIVE parse_site_from(_, _)
parse_site_from(files, site_files_in) ==
    IF files = <<>> THEN site_files_in
    ELSE parse_site_from(Tail(files),
            add_site_file(site_files_in, Head(files).dirpath, Head(files).name,
                          SourceText(Head(files).src)))

\* lines 314-334
parse_site_content(dirs) == parse_site_from(walk_files(dirs), <<>>)

-----------------------------------------------------------------------------
(* main *)

NotYet == <<>>

VisitorIdle ==
    tree = ParseFails /\ classes = EmptyDict /\ vpc = "idle" /\ file_functions = EmptyDict

MainInit ==
    /\ listing \in Listings
    /\ pc = "check_root" /\ next_file = 1
    /\ packages = EmptyDict /\ uml_source = NotYet
    /\ modules = EmptyDict /\ module_funcs_doc = NotYet
    /\ site_files = <<>> /\ site_content_doc = NotYet
    /\ written = EmptyDict /\ exit_code = Running /\ error = "" /\ parsed_files = 0
    /\ renders = <<>>
    /\ VisitorIdle

\* sys.exit(1) after the message for `what` has been printed.
Fail(what) ==
    /\ error' = what
    /\ exit_code' = {1}
    /\ pc' = "exited"

\* lines 364-366: os.path.isdir(args.root) answers is_dir.
CheckRoot ==
    /\ pc = "check_root"
    /\ \E is_dir \in BOOLEAN :
          IF is_dir
          THEN pc' = "make_output" /\ UNCHANGED <<error, exit_code>>
          ELSE Fail("root")
    /\ UNCHANGED <<listing, next_file, packages, uml_source, modules, module_funcs_doc,
                   site_files, site_content_doc, written, parsed_files>>
    /\ UNCHANGED <<vvars, renders>>

\* lines 368-376: the output folder exists, or os.makedirs makes it or raises.
MakeOutput ==
    /\ pc = "make_output"
    /\ \E exists \in BOOLEAN, made \in BOOLEAN :
          IF exists \/ made
          THEN pc' = "parse_directory" /\ UNCHANGED <<error, exit_code>>
          ELSE Fail("mkdir")
    /\ UNCHANGED <<listing, next_file, packages, uml_source, modules, module_funcs_doc,
                   site_files, site_content_doc, written, parsed_files>>
    /\ UNCHANGED <<vvars, renders>>

\* line 379, lines 143-158: parse_directory takes the next file of the walk.
ParseDirectoryFile ==
    /\ pc = "parse_directory"
    /\ next_file <= Len(walk_files(listing))
    /\ LET f == walk_files(listing)[next_file]
       IN  packages' = add_file_classes(packages, f.dirpath, f.name, Source(f.src))
    /\ next_file' = next_file + 1
    /\ parsed_files' = parsed_files + 1
    /\ UNCHANGED <<listing, pc, uml_source, modules, module_funcs_doc,
                   site_files, site_content_doc, written, exit_code, error>>
    /\ UNCHANGED <<vvars, renders>>

\* lines 159 and 380: parse_directory returns, generate_plantuml renders.
GeneratePlantuml ==
    /\ pc = "parse_directory"
    /\ next_file > Len(walk_files(listing))
    /\ uml_source' = generate_plantuml(packages)
    /\ pc' = "write_uml"
    /\ UNCHANGED <<listing, next_file, packages, modules, module_funcs_doc,
                   site_files, site_content_doc, written, exit_code, error, parsed_files>>
    /\ UNCHANGED <<vvars, renders>>

\* after_write with the sys.exit(1) of the except branch missing.
after_write_keeps_going(ok, next_pc) == next_pc

\* lines 382-388, 394-400, 406-412: where main goes after the write of an
\* artifact succeeded (ok) or raised.
after_write(ok, next_pc) == IF ok THEN next_pc ELSE "exited"

\* One of the three try/except blocks around open(...).write(text).
WriteArtifact(at, name, text, next_pc, what) ==
    /\ pc = at
    /\ \E ok \in BOOLEAN :
          /\ pc' = after_write(ok, next_pc)
          /\ IF ok
             THEN /\ written' = DictSet(written, name, text)
                  /\ UNCHANGED error
                  /\ exit_code' = IF next_pc = "done" THEN {0} ELSE exit_code
             ELSE /\ error' = what
                  /\ exit_code' = IF pc' = "exited" THEN {1} ELSE exit_code
                  /\ UNCHANGED written

\* lines 381-388
WriteUml ==
    /\ WriteArtifact("write_uml", <<"u", "m", "l", ".", "t", "x", "t">>, uml_source, "parse_functions", "uml")
    /\ next_file' = 1
    /\ UNCHANGED <<listing, packages, uml_source, modules, module_funcs_doc,
                   site_files, site_content_doc, parsed_files>>
    /\ UNCHANGED <<vvars, renders>>

\* line 391, lines 271-284: parse_directory_module_functions takes the next file.
ParseModuleFunctionsFile ==
    /\ pc = "parse_functions"
    /\ next_file <= Len(walk_files(listing))
    /\ LET f == walk_files(listing)[next_file]
       IN  modules' = add_file_functions(modules, f.dirpath, f.name, Source(f.src))
    /\ next_file' = next_file + 1
    /\ parsed_files' = parsed_files + 1
    /\ UNCHANGED <<listing, pc, packages, uml_source, module_funcs_doc,
                   site_files, site_content_doc, written, exit_code, error>>
    /\ UNCHANGED <<vvars, renders>>

\* lines 285 and 392
GenerateModuleFunctionsDoc ==
    /\ pc = "parse_functions"
    /\ next_file > Len(walk_files(listing))
    /\ module_funcs_doc' = generate_module_functions_doc(modules)
    /\ pc' = "write_functions"
    /\ UNCHANGED <<listing, next_file, packages, uml_source, modules,
                   site_files, site_content_doc, written, exit_code, error, parsed_files>>
    /\ UNCHANGED <<vvars, renders>>

\* lines 393-400
WriteModuleFunctions ==
    /\ WriteArtifact("write_functions", <<"m", "o", "d", "u", "l", "e", "_", "f", "u", "n", "c", "t", "i", "o", "n", "s", ".", "t", "x", "t">>, module_funcs_doc,
                     "parse_site", "functions")
    /\ next_file' = 1
    /\ UNCHANGED <<listing, packages, uml_source, modules, module_funcs_doc,
                   site_files, site_content_doc, parsed_files>>
    /\ UNCHANGED <<vvars, renders>>

\* lines 403-404: parse_site_content walks the whole tree, then the site
\* document is rendered.
ParseSiteContent ==
    /\ pc = "parse_site"
    /\ site_files' = parse_site_content(listing)
    /\ site_content_doc' = generate_site_content_doc(site_files')
    /\ parsed_files' = parsed_files + Len(site_files')
    /\ pc' = "write_site"
    /\ UNCHANGED <<listing, next_file, packages, uml_source, modules, module_funcs_doc,
                   written, exit_code, error>>
    /\ UNCHANGED <<vvars, renders>>

\* lines 405-412
WriteSiteContent ==
    /\ WriteArtifact("write_site", <<"s", "i", "t", "e", "-", "c", "o", "n", "t", "e", "n", "t", ".", "t", "x", "t">>, site_content_doc, "done", "site")
    /\ UNCHANGED <<listing, next_file, packages, uml_source, modules, module_funcs_doc,
                   site_files, site_content_doc, parsed_files>>
    /\ UNCHANGED <<vvars, renders>>

MainNext ==
    \/ CheckRoot
    \/ MakeOutput
    \/ ParseDirectoryFile
    \/ GeneratePlantuml
    \/ WriteUml
    \/ ParseModuleFunctionsFile
    \/ GenerateModuleFunctionsDoc
    \/ WriteModuleFunctions
    \/ ParseSiteContent
    \/ WriteSiteContent

SpecMain == MainInit /\ [][MainNext]_vars

-----------------------------------------------------------------------------
(* The renderers called repeatedly on one aggregate *)

MaxCalls == 2

RenderInit ==
    /\ listing \in Listings
    /\ packages = parse_directory(listing)
    /\ modules = parse_directory_module_functions(listing)
    /\ renders = <<>>
    /\ pc = "render" /\ next_file = 1
    /\ uml_source = NotYet /\ module_funcs_doc = NotYet
    /\ site_files = <<>> /\ site_content_doc = NotYet
    /\ written = EmptyDict /\ exit_code = Running /\ error = "" /\ parsed_files = 0
    /\ VisitorIdle

\* A call generate_plantuml(packages): the function assigns to nothing its
\* argument reaches, so the aggregate is as before.
CallGeneratePlantuml ==
    /\ pc = "render"
    /\ Len(renders) < MaxCalls
    /\ renders' = Append(renders, [fn |-> "generate_plantuml",
                                   text |-> generate_plantuml(packages)])
    /\ UNCHANGED <<vvars, mvars>>

\* A call generate_module_functions_doc(modules): sorted() copies, so the
\* aggregate is as before.
CallGenerateModuleFunctionsDoc ==
    /\ pc = "render"
    /\ Len(renders) < MaxCalls
    /\ renders' = Append(renders, [fn |-> "generate_module_functions_doc",
                                   text |-> generate_module_functions_doc(modules)])
    /\ UNCHANGED <<vvars, mvars>>

RenderNext ==
    \/ CallGeneratePlantuml
    \/ CallGenerateModuleFunctionsDoc

SpecRender == RenderInit /\ [][RenderNext]_vars

-----------------------------------------------------------------------------
(* Properties of the aggregators, the renderers and main *)

\* The class entries of all packages, in rendering order, each with the list
\* it is in.
AllClassEntries ==
    concat([p \in 1..Len(packages) |->
              [i \in 1..Len(packages[p].value) |->
                  [pkg |-> p, entries |-> packages[p].value, entry |-> packages[p].value[i]]]])

ClassHeaderLines(lines) == SelectSeq(lines, LAMBDA l : startswith(l, <<" ", " ", "c", "l", "a", "s", "s", " ">>))

SharesName(e) == \E i, j \in 1..Len(e.entries) :
    i # j /\ e.entries[i].class_name = e.entry.class_name
          /\ e.entries[j].class_name = e.entry.class_name

ExpectedDisplay(e) ==
    IF SharesName(e)
    THEN e.entry.class_name \o <<" ", "(">> \o e.entry.module \o <<")">>
    ELSE e.entry.class_name

\* C4: in the diagram, the class entries of one package that share a class
\* name are shown as 'Name (module)' and no two of them are shown alike; an
\* entry whose name is unique in its package is shown by its bare name.
C4_DuplicateNamesDisambiguated ==
    uml_source # NotYet =>
        LET headers == ClassHeaderLines(uml_source)
            all     == AllClassEntries
        IN  /\ Len(headers) = Len(all)
            /\ \A i \in 1..Len(all) :
                  headers[i] = <<" ", " ", "c", "l", "a", "s", "s", " ">> \o ExpectedDisplay(all[i]) \o <<" ", "{">>
            /\ \A i, j \in 1..Len(all) :
                  (/\ i # j
                   /\ all[i].pkg = all[j].pkg
                   /\ all[i].entry.class_name = all[j].entry.class_name)
                  => headers[i] # headers[j]

IndexPermutations(n) == {f \in [1..n -> 1..n] : \A i, j \in 1..n : f[i] = f[j] => i = j}

RECURSIVE PermutedAggregates(_)
\* The aggregates that differ from d only in the order of the entries inside
\* its per-package lists.
PermutedAggregates(d) ==
    IF d = <<>> THEN {<<>>}
    ELSE LET entries == Head(d).value
         IN  { <<[key |-> Head(d).key,
                  value |-> [i \in 1..Len(entries) |-> entries[f[i]]]]>> \o rest :
                 f \in IndexPermutations(Len(entries)), rest \in PermutedAggregates(Tail(d)) }

IsPackageLine(l) == startswith(l, <<"P", "a", "c", "k", "a", "g", "e", ":", " ">>)
IsModuleLine(l) == startswith(l, <<" ", " ", "M", "o", "d", "u", "l", "e", ":", " ">>)
IsFunctionLine(l) == startswith(l, <<" ", " ", " ", " ", "-", " ">>)
PackageOfLine(l) == SubSeq(l, 10, Len(l))
ModuleOfLine(l) == SubSeq(l, 11, Len(l))
FunctionOfLine(l) ==
    SubSeq(l, 7, (CHOOSE i \in 7..Len(l) : l[i] = "(" /\ \A j \in 7..(i - 1) : l[j] # "(") - 1)

ListingIsSorted(lines) ==
    \A i, j \in 1..Len(lines) :
        i < j =>
            /\ (IsPackageLine(lines[i]) /\ IsPackageLine(lines[j]))
                  => StrLess(PackageOfLine(lines[i]), PackageOfLine(lines[j]))
            /\ (/\ IsModuleLine(lines[i]) /\ IsModuleLine(lines[j])
                /\ \A m \in i..j : ~IsPackageLine(lines[m]))
                  => ~StrLess(ModuleOfLine(lines[j]), ModuleOfLine(lines[i]))
            /\ (/\ IsFunctionLine(lines[i]) /\ IsFunctionLine(lines[j])
                /\ \A m \in i..j : ~IsModuleLine(lines[m]))
                  => StrLess(FunctionOfLine(lines[i]), FunctionOfLine(lines[j]))

\* C5: the function listing has its packages, the modules of a package and
\* the functions of a module in ascending name order, and it is the same
\* text for every order of the entries inside the per-package lists.
C5_ListingSortedWhateverTheOrder ==
    module_funcs_doc # NotYet =>
        /\ ListingIsSorted(module_funcs_doc)
        /\ \A m \in PermutedAggregates(modules) :
              generate_module_functions_doc(m) = module_funcs_doc

Failing(f) == endswith(f.name, dot_py) /\ Source(f.src) = ParseFails

\* The tree without the files that cannot be read or parsed.
WithoutFailing(dirs) ==
    [i \in 1..Len(dirs) |->
        [dirpath |-> dirs[i].dirpath,
         files |-> SelectSeq(dirs[i].files, LAMBDA f : ~Failing(f))]]

\* C6: a file that cannot be read or parsed gives an empty mapping in both
\* extractors, every file of the tree is still taken, and both aggregates
\* are what the tree without the failing files gives.
C6_FailingFileAddsNothing ==
    /\ \A i \in 1..Len(walk_files(listing)) :
          Failing(walk_files(listing)[i]) =>
              /\ parse_python_file(Source(walk_files(listing)[i].src)) = EmptyDict
              /\ parse_module_functions(Source(walk_files(listing)[i].src)) = EmptyDict
    /\ uml_source # NotYet =>
          /\ parsed_files >= Len(walk_files(listing))
          /\ packages = parse_directory(WithoutFailing(listing))
    /\ module_funcs_doc # NotYet =>
          /\ parsed_files >= 2 * Len(walk_files(listing))
          /\ modules = parse_directory_module_functions(WithoutFailing(listing))

\* C6 witness: a run that ended normally on a tree where a failing file is
\* met before a file that has classes and functions.
C6_Witness ==
    /\ pc = "done"
    /\ \E i, j \in 1..Len(walk_files(listing)) :
          /\ i < j
          /\ Failing(walk_files(listing)[i])
          /\ walk_files(listing)[j].src = "node"
    /\ packages # EmptyDict /\ modules # EmptyDict

\* C7: a root that is no directory ends the run with a non-zero status before
\* any file is parsed; a failure to make the output folder or to write an
\* artifact ends it with a non-zero status, and once a fatal error is
\* reported no file is parsed and no artifact is written any more.
C7_FatalErrorsEndTheRun ==
    /\ [](error # "" => exit_code = {1} /\ pc = "exited")
    /\ [](error \in {"root", "mkdir"} => parsed_files = 0 /\ written = EmptyDict)
    /\ [][error # "" =>
            UNCHANGED <<parsed_files, written, packages, modules, site_files>>]_vars

\* C7 witness: the write of module_functions.txt failed after uml.txt was
\* written.
C7_Witness ==
    /\ error = "functions" /\ exit_code = {1}
    /\ HasKey(written, <<"u", "m", "l", ".", "t", "x", "t">>)
    /\ ~HasKey(written, <<"m", "o", "d", "u", "l", "e", "_", "f", "u", "n", "c", "t", "i", "o", "n", "s", ".", "t", "x", "t">>)
    /\ parsed_files > 0

-----------------------------------------------------------------------------
(* The files the function extractor is run on *)

MaxDefs == 2

\* <<"c", "a", "c", "h", "e", "d", " ">>app.route def fetch(url: str, n) -> bytes: def inner(): ...
f_fetch ==
    FunctionDef(<<"f", "e", "t", "c", "h">>, arguments(<<>>, <<arg(<<"u", "r", "l">>, e_str), arg(<<"n">>, None)>>, None, <<>>, None),
                Name(<<"b", "y", "t", "e", "s">>), <<Name(<<"c", "a", "c", "h", "e", "d">>), Attribute(Name(<<"a", "p", "p">>), <<"r", "o", "u", "t", "e">>)>>,
                <<FunctionDef(<<"i", "n", "n", "e", "r">>, no_args, None, <<>>, <<>>)>>)
\* def fetch(again): ...
f_again ==
    FunctionDef(<<"f", "e", "t", "c", "h">>, arguments(<<>>, <<arg(<<"a", "g", "a", "i", "n">>, None)>>, None, <<>>, None),
                None, <<>>, <<>>)
\* async def serve(port: int): ...
f_serve ==
    AsyncFunctionDef(<<"s", "e", "r", "v", "e">>, arguments(<<>>, <<arg(<<"p", "o", "r", "t">>, e_int)>>, None, <<>>, None),
                     None, <<>>, <<>>)
\* <<"<", "u", "n", "r", "e", "n", "d", "e", "r", "a", "b", "l", "e", ">", " ">>cached def g() -> <unrenderable>: ...
f_g == FunctionDef(<<"g">>, no_args, Deep, <<Deep, Name(<<"c", "a", "c", "h", "e", "d">>)>>, <<>>)
\* def run(a, *rest, key: int, **kw): ...
f_run ==
    FunctionDef(<<"r", "u", "n">>,
                arguments(<<>>, <<arg(<<"a">>, None)>>, arg(<<"r", "e", "s", "t">>, None),
                          <<arg(<<"k", "e", "y">>, e_int)>>, arg(<<"k", "w">>, None)),
                None, <<>>, <<>>)
\* class K: def method(self): ...
f_class == ClassDef(<<"K">>, <<FunctionDef(<<"m", "e", "t", "h", "o", "d">>, no_more, None, <<>>, <<>>)>>)
\* if ...: def cond(): ...  else: async def other(): ...
f_if ==
    If(<<FunctionDef(<<"c", "o", "n", "d">>, no_args, None, <<>>, <<>>)>>,
       <<AsyncFunctionDef(<<"o", "t", "h", "e", "r">>, no_args, None, <<>>, <<>>)>>)

Statements == {f_fetch, f_again, f_serve, f_g, f_run, f_class, f_if, m_x}

FunctionTrees ==
    {Module(b) : b \in UNION {[1..n -> Statements] : n \in 0..MaxDefs}} \cup {ParseFails}

-----------------------------------------------------------------------------
(* parse_module_functions as a run: one file in, one mapping out *)

FunctionsInit ==
    /\ tree \in FunctionTrees
    /\ classes = EmptyDict
    /\ vpc = "start"
    /\ file_functions = EmptyDict
    /\ listing = <<>> /\ pc = "idle" /\ next_file = 1
    /\ packages = EmptyDict /\ uml_source = <<>>
    /\ modules = EmptyDict /\ module_funcs_doc = <<>>
    /\ site_files = <<>> /\ site_content_doc = <<>>
    /\ written = EmptyDict /\ exit_code = {} /\ error = "" /\ parsed_files = 0
    /\ renders = <<>>

ParseModuleFunctions ==
    /\ vpc = "start"
    /\ file_functions' = parse_module_functions(tree)
    /\ vpc' = "done"
    /\ UNCHANGED <<tree, classes, mvars, renders>>

FunctionsNext == ParseModuleFunctions

SpecFunctions == FunctionsInit /\ [][FunctionsNext]_vars

-----------------------------------------------------------------------------
(* Properties of the function extractor *)

\* The function definitions, def or async def, that are direct children of
\* the module body, in source order.
TopLevelDefs(t) ==
    IF t = ParseFails THEN <<>>
    ELSE SelectSeq(t.body, LAMBDA n : n.type \in {"FunctionDef", "AsyncFunctionDef"})

\* The definition a name is bound to once the module has run: the last one.
LastDefNamed(t, name) ==
    LET defs == TopLevelDefs(t)
        last == CHOOSE i \in 1..Len(defs) :
                    /\ defs[i].name = name
                    /\ \A j \in (i + 1)..Len(defs) : defs[j].name # name
    IN  defs[last]

\* The decorators of a definition that have a text, rendered, in declaration order.
RenderedDecorators(f) ==
    LET renderable == SelectSeq(f.decorator_list, LAMBDA d : ~unparse_raises(d))
    IN  [i \in 1..Len(renderable) |-> unparse(renderable[i])]

\* C11: once a file is parsed, the keys of the mapping parse_module_functions
\* returns are exactly the names of the function definitions that are direct
\* children of the module body (nothing nested, nothing missing), and each
\* record holds the function's parameters and its renderable decorators in
\* declaration order.
C11_KeysAreTopLevelFunctions ==
    vpc = "done" =>
        /\ Range(Keys(file_functions)) =
                {TopLevelDefs(tree)[i].name : i \in 1..Len(TopLevelDefs(tree))}
        /\ \A i \in 1..Len(file_functions) :
                LET f == LastDefNamed(tree, file_functions[i].key)
                    declared == DeclaredParams(f)
                IN  /\ file_functions[i].value.params =
                            [k \in 1..Len(declared) |-> DeclaredText(declared[k])]
                    /\ file_functions[i].value.decorators = RenderedDecorators(f)

-----------------------------------------------------------------------------
(* Properties of the package names *)

\* The directory holds a .py file in which the class extractor finds a class.
HoldsClasses(dir) ==
    \E j \in 1..Len(dir.files) :
        /\ endswith(dir.files[j].name, dot_py)
        /\ parse_python_file(Source(dir.files[j].src)) # EmptyDict

\* The directory holds a .py file in which the function extractor finds a function.
HoldsFunctions(dir) ==
    \E j \in 1..Len(dir.files) :
        /\ endswith(dir.files[j].name, dot_py)
        /\ parse_module_functions(Source(dir.files[j].src)) # EmptyDict

\* The walked directories whose files went into the class list of a package.
ClassDirectoriesOf(package_name) ==
    {i \in 1..Len(listing) :
        /\ compute_package_name(listing[i].dirpath) = package_name
        /\ HoldsClasses(listing[i])}

FunctionDirectoriesOf(package_name) ==
    {i \in 1..Len(listing) :
        /\ compute_package_name(listing[i].dirpath) = package_name
        /\ HoldsFunctions(listing[i])}

\* C12: once the tree is walked, the name 'root' belongs to the scan root
\* alone, two different directories never have the same package name, and
\* each per-package list of the class and function aggregates holds the
\* entries of one directory only.
C12_DirectoriesHaveDistinctPackageNames ==
    uml_source # NotYet =>
        /\ \A i \in 1..Len(listing) :
                compute_package_name(listing[i].dirpath) = <<"r", "o", "o", "t">>
                    => listing[i].dirpath = <<>>
        /\ \A i, j \in 1..Len(listing) :
                listing[i].dirpath # listing[j].dirpath
                    => compute_package_name(listing[i].dirpath)
                            # compute_package_name(listing[j].dirpath)
        /\ \A p \in 1..Len(packages) :
                Cardinality(ClassDirectoriesOf(packages[p].key)) <= 1
        /\ module_funcs_doc # NotYet =>
                \A p \in 1..Len(modules) :
                    Cardinality(FunctionDirectoriesOf(modules[p].key)) <= 1

====
